---- MODULE Spec2Model ----
(***************************************************************************)
(* Clip annotation pipeline of the GAA analysis scripts.                   *)
(*                                                                         *)
(* The analyzer scripts (4-goal-kick-detection/1_analyze_clips.py,         *)
(* 1-analyze_clips.py, analyze_clips.py, analyze_first_10min.py) share one *)
(* structure: main() submits one task per clip to a ThreadPoolExecutor,    *)
(* each task uploads the clip, polls until it is processed, asks the       *)
(* model for an analysis and deletes the upload; main() then collects the  *)
(* futures in submission order and writes one text file per clip.          *)
(* 1_analyze_clips.py alone skips clips whose output file exists.          *)
(*                                                                         *)
(* 3-half-start-end/1.5-compress-agent.py compresses each description in   *)
(* a pool thread that writes its own output file and counts its outcome    *)
(* in two globals under results_lock.  The synthesis scripts list a        *)
(* results directory and decode each clip's start time from its file name  *)
(* or from the TIMESTAMP header the analyzer wrote.                        *)
(***************************************************************************)
EXTENDS Integers, Sequences, FiniteSets, TLC

(* ----------------------------- bounds ---------------------------------- *)
NumClips   == 2   \* clips found by the glob, in sorted order
MaxThreads == 2   \* largest max_workers value tried
MaxRuns    == 2   \* invocations of the script over the same output directory
MaxFiles   == 3   \* files in a results directory that is listed
MaxResults == 2   \* result files handed to a synthesis script
MaxLines   == 2   \* lines of the text the model returned for a clip

Clips == 1..NumClips

(* ------------------------- values of the code -------------------------- *)
Scripts == {"1_analyze_clips", "1-analyze_clips"}

\* video_file.state.name as the capability reports it
FileStates == {"PROCESSING", "ACTIVE", "FAILED"}

\* exceptions an external call can raise: a timeout (transient) and a
\* rejection of the content (permanent); both are caught by `except Exception`
Exceptions == {"DeadlineExceeded", "InvalidArgument"}
Transient  == {"DeadlineExceeded"}

ABSENT  == [exists |-> FALSE]   \* no output file
PARTIAL == [truncated |-> TRUE] \* output file opened with 'w', content not yet written

\* f"❌ Failed to process {clip_path}"
FailedText(c) == <<"Failed to process", c>>

\* f"❌ Error analyzing {clip_path}: {str(e)}"
ErrorText(c, e) == <<"Error analyzing", c, e>>

\* response.text: whatever text the model produced for the clip; the code
\* puts no constraint on it, so it may also read like a failure line
ResponseTexts(c) == {<<"KICKOUT: YES">>, FailedText(c)}

\* the per-clip file written by main(): header lines and the ANALYSIS section
Record(c, result) == [CLIP_FILE |-> c, ANALYSIS |-> result]

IsRecord(f) == f # ABSENT /\ f # PARTIAL

\* external calls counted per clip; get_file is left out, the poll loop
\* repeats it without limit
NoCalls == [upload |-> 0, generate_content |-> 0, delete_file |-> 0]

VARIABLES
    script,      \* which analyzer script is run
    max_workers, \* ThreadPoolExecutor(max_workers=...)
    run,         \* number of the current invocation
    mpc,         \* position of main(): submit, collect, write, finished, interrupted
    idx,         \* position of the running for loop of main()
    futures,     \* the list `futures`: clips submitted, in submission order
    completed,   \* the counter `completed` of main()
    pc,          \* per clip: position of its task
    video_file,  \* per clip: video_file.state.name held by the task
    response,    \* per clip: response.text held by the task
    result,      \* per clip: value returned by the task
    remote,      \* per clip: the uploaded file at the capability
    ncalls,      \* per clip: external calls made in this run
    raised,      \* per clip: the exception the task caught, if any
    touched,     \* per upload: the tasks that have named it in an external call
    file,        \* per clip: content of the output file
    origin,      \* per clip: outcome of the task whose result the file holds
    atStart,     \* per clip: what the output directory held when the run began
    resumed      \* the previous invocation was interrupted

\* 3-half-start-end/1.5-compress-agent.py
VARIABLES
    n_files,           \* clip_*.txt files in the input directory
    max_clips,         \* args.max_clips: <<>> when not given (None), else <<N>>
    threads,           \* args.threads
    description_files, \* the list `description_files`
    apc,               \* position of main(): find, submit, wait, finished, no_files
    aidx,              \* position of the submit loop
    yielded,           \* futures that as_completed has yielded
    acompleted,        \* the counter `completed` of main()
    tpc,               \* per description: position of its task
    reg,               \* per description: counter value read by `+= 1`, not yet stored
    ret,               \* per description: value returned by the task
    compressed,        \* per output file: its content
    results_lock,      \* 0: free, otherwise the task that holds it
    processed_count,   \* the global `processed_count`
    error_count        \* the global `error_count`

\* the functions that list a results directory and decode the clip offsets
VARIABLES
    collector,      \* which script's collecting function is run
    listing,        \* stems of the *.txt files in the directory
    analysis_files, \* the list `analysis_files` / `description_files`: sorted names
    eidx,           \* position of the for loop
    descriptions,   \* the list `descriptions` / `results`
    epc             \* position of the function: glob, loop, sort, returned

\* the synthesis scripts: the collected results are put to the model in one
\* prompt and its answer is written out
VARIABLES
    synth,            \* which synthesis script is run
    analysis_results, \* the list returned by the collecting function
    spc,              \* position of main(): main, prompt, generate, extract, save, exit
    prompt,           \* the results whose content is pasted into the prompt
    synth_response,   \* response.text of the synthesis call
    kickout_data,     \* the value returned by the synthesis function
    timeline,         \* what this invocation wrote to the output files
    previous          \* what the invocation before this one wrote

\* a record written by an analyzer and read back by collect_analysis_results
VARIABLES
    video_stem,       \* video_file.stem of the clip
    half_name,        \* the half whose directory the clip and its record are in
    analysis,         \* the text the task returned for the clip, as lines
    record_file,      \* the lines of the record file; <<>> while it is not written
    collected,        \* the list `results` of collect_analysis_results
    rpc               \* write, collect, done, failed

\* the context-size probe (test-context-size.py)
VARIABLES
    n_descriptions,   \* len(description_files)
    tidx,             \* position of `for batch_size in test_sizes`
    batch_size,       \* the loop variable, after the clamp
    tested,           \* the batch sizes a call was made for, in order
    maximum,          \* the number printed as "Maximum processable", as a set
    ppc               \* loop, call, full, limit, crashed, end

vars == <<script, max_workers, run, mpc, idx, futures, completed, pc, video_file,
          response, result, remote, ncalls, raised, touched, file, origin, atStart,
          resumed,
          n_files, max_clips, threads, description_files, apc, aidx, yielded,
          acompleted, tpc, reg, ret, compressed, results_lock, processed_count,
          error_count,
          collector, listing, analysis_files, eidx, descriptions, epc,
          synth, analysis_results, spc, prompt, synth_response, kickout_data,
          timeline, previous,
          video_stem, half_name, analysis, record_file, collected, rpc,
          n_descriptions, tidx, batch_size, tested, maximum, ppc>>

mainVars   == <<mpc, idx, futures, completed>>
taskVars   == <<pc, video_file, response, result, remote, ncalls, raised, touched>>
storeVars  == <<file, origin>>
agentVars  == <<n_files, max_clips, threads, description_files, apc, aidx, yielded,
                acompleted, tpc, reg, ret, compressed, results_lock,
                processed_count, error_count>>
enumVars   == <<collector, listing, analysis_files, eidx, descriptions, epc>>
synthVars  == <<synth, analysis_results, spc, prompt, synth_response, kickout_data,
                timeline, previous>>
recordVars == <<video_stem, half_name, analysis, record_file, collected, rpc>>
probeVars  == <<n_descriptions, tidx, batch_size, tested, maximum, ppc>>
\* what a step of an analyzer run leaves alone
configVars == <<script, max_workers, run, atStart, resumed, agentVars, enumVars, synthVars, recordVars, probeVars>>

\* the compression agent is not running
AgentIdle ==
    /\ n_files = 0
    /\ max_clips = <<>>
    /\ threads = 1
    /\ description_files = <<>>
    /\ apc = "finished"
    /\ aidx = 1
    /\ yielded = {}
    /\ acompleted = 0
    /\ tpc = [c \in Clips |-> "none"]
    /\ reg = [c \in Clips |-> 0]
    /\ ret = [c \in Clips |-> "none"]
    /\ compressed = [c \in Clips |-> ABSENT]
    /\ results_lock = 0
    /\ processed_count = 0
    /\ error_count = 0

\* no collecting function is running
EnumIdle ==
    /\ collector = "synthesize_kickouts_json"
    /\ listing = {}
    /\ analysis_files = <<>>
    /\ eidx = 1
    /\ descriptions = <<>>
    /\ epc = "returned"

\* None, and an output file that was not written
None == [kind |-> "None"]

\* no synthesis script is running
SynthIdle ==
    /\ synth = "2-synthesize_kickouts"
    /\ analysis_results = <<>>
    /\ spc = "exit"
    /\ prompt = <<>>
    /\ synth_response = None
    /\ kickout_data = None
    /\ timeline = None
    /\ previous = None

\* no record is being written or read back
RecordIdle ==
    /\ video_stem = <<>>
    /\ half_name = "first_half"
    /\ analysis = <<>>
    /\ record_file = <<>>
    /\ collected = <<>>
    /\ rpc = "done"

\* the context-size probe is not running
ProbeIdle ==
    /\ n_descriptions = 0
    /\ tidx = 1
    /\ batch_size = 0
    /\ tested = <<>>
    /\ maximum = {}
    /\ ppc = "end"

(* ---------------------------- helpers ---------------------------------- *)
\* `if output_file.exists(): continue` is present in 1_analyze_clips.py only
SkipExisting(s) == s = "1_analyze_clips"

\* output_file.exists()
Exists(c) == file[c] # ABSENT

\* what the output directory holds for a clip: nothing, a truncated file, or
\* the record of a task that succeeded (DONE) or failed (FAILED)
Held(c) ==
    IF file[c] = ABSENT THEN "absent"
    ELSE IF file[c] = PARTIAL THEN "partial"
    ELSE origin[c]

\* tasks a pool thread is executing
InFlight == {c \in Clips : pc[c] \in {"upload", "wait", "sleep", "generate", "delete"}}

\* the executor starts a queued work item only on one of its max_workers threads
ThreadAvailableUnbounded == TRUE
ThreadAvailable == Cardinality(InFlight) < max_workers

\* work items leave the executor's queue in submission order
HeadOfQueue(c) ==
    \E i \in 1..Len(futures) :
        /\ futures[i] = c
        /\ pc[c] = "queued"
        /\ \A j \in 1..(i - 1) : pc[futures[j]] # "queued"

\* where the task continues after `except Exception as e`: it returns
AfterExceptRetry(c) == "upload"
AfterExcept(c) == "returned"

Alive == mpc \notin {"finished", "interrupted"}

\* the task leaves analyze_clip_for_kickouts at position p with value r;
\* its locals (video_file, response) end with the call
Leave(c, p, r) ==
    /\ pc' = [pc EXCEPT ![c] = p]
    /\ result' = [result EXCEPT ![c] = r]
    /\ video_file' = [video_file EXCEPT ![c] = "none"]
    /\ response' = [response EXCEPT ![c] = <<>>]

\* except Exception as e: return f"Error analyzing {clip_path}: {str(e)}"
Raise(c, e) ==
    /\ Leave(c, AfterExcept(c), ErrorText(c, e))
    /\ raised' = [raised EXCEPT ![c] = e]

Count(c, call) == ncalls' = [ncalls EXCEPT ![c][call] = @ + 1]

\* the upload a task names in get_file, generate_content and delete_file:
\* video_file is a local of the call, so it is the task's own upload
HandleOfShared(c) == 1
HandleOf(c) == c

Access(c) == touched' = [touched EXCEPT ![HandleOf(c)] = @ \cup {c}]

\* output_dir / f"{video_file.stem}.txt": one output file per clip name
OutputFileShared(c) == 1
OutputFile(c) == c

\* where main() continues after the `except Exception` of the collect loop:
\* with the next future
AfterCollectErrorAbort == "finished"
AfterCollectError == "collect"

(* ------------------------------ Init ----------------------------------- *)
Init ==
    /\ script \in Scripts
    /\ max_workers \in 1..MaxThreads
    /\ run = 1
    /\ mpc = "submit"
    /\ idx = 1
    /\ futures = <<>>
    /\ completed = 0
    /\ pc = [c \in Clips |-> "none"]
    /\ video_file = [c \in Clips |-> "none"]
    /\ response = [c \in Clips |-> <<>>]
    /\ result = [c \in Clips |-> <<>>]
    /\ remote = [c \in Clips |-> "none"]
    /\ ncalls = [c \in Clips |-> NoCalls]
    /\ raised = [c \in Clips |-> "none"]
    /\ touched = [c \in Clips |-> {}]
    /\ file = [c \in Clips |-> ABSENT]
    /\ origin = [c \in Clips |-> "none"]
    /\ atStart = [c \in Clips |-> "absent"]
    /\ resumed = FALSE
    /\ AgentIdle
    /\ EnumIdle
    /\ SynthIdle
    /\ RecordIdle
    /\ ProbeIdle

(* --------------------------- the task ---------------------------------- *)
\* a pool thread takes the work item and enters analyze_clip_for_kickouts
Start(c) ==
    /\ Alive
    /\ HeadOfQueue(c)
    /\ ThreadAvailable
    /\ pc' = [pc EXCEPT ![c] = "upload"]
    /\ UNCHANGED <<video_file, response, result, remote, ncalls, raised, touched>>
    /\ UNCHANGED <<mainVars, storeVars, configVars>>

\* video_file = genai.upload_file(path=clip_path)
Upload(c) ==
    /\ Alive
    /\ pc[c] = "upload"
    /\ Count(c, "upload")
    /\ \/ \E s \in FileStates :
            /\ video_file' = [video_file EXCEPT ![c] = s]
            /\ remote' = [remote EXCEPT ![c] = "live"]
            /\ touched' = [touched EXCEPT ![c] = @ \cup {c}]
            /\ pc' = [pc EXCEPT ![c] = "wait"]
            /\ UNCHANGED <<response, result, raised>>
       \/ \E e \in Exceptions :
            /\ Raise(c, e)
            /\ UNCHANGED <<remote, touched>>
    /\ UNCHANGED <<mainVars, storeVars, configVars>>

\* while video_file.state.name == "PROCESSING": ...
\* if video_file.state.name == "FAILED": return "Failed to process ..."
While(c) ==
    /\ Alive
    /\ pc[c] = "wait"
    /\ IF video_file[c] = "PROCESSING"
         THEN /\ pc' = [pc EXCEPT ![c] = "sleep"]
              /\ UNCHANGED <<video_file, response, result>>
         ELSE IF video_file[c] = "FAILED"
         THEN Leave(c, "returned", FailedText(c))
         ELSE /\ pc' = [pc EXCEPT ![c] = "generate"]
              /\ UNCHANGED <<video_file, response, result>>
    /\ UNCHANGED <<remote, ncalls, raised, touched>>
    /\ UNCHANGED <<mainVars, storeVars, configVars>>

\* time.sleep(1); video_file = genai.get_file(video_file.name)
GetFile(c) ==
    /\ Alive
    /\ pc[c] = "sleep"
    /\ Access(c)
    /\ \/ \E s \in FileStates :
            /\ video_file' = [video_file EXCEPT ![c] = s]
            /\ pc' = [pc EXCEPT ![c] = "wait"]
            /\ UNCHANGED <<response, result, raised>>
       \/ \E e \in Exceptions : Raise(c, e)
    /\ UNCHANGED <<remote, ncalls>>
    /\ UNCHANGED <<mainVars, storeVars, configVars>>

\* response = model.generate_content([video_file, prompt])
Generate(c) ==
    /\ Alive
    /\ pc[c] = "generate"
    /\ Count(c, "generate_content")
    /\ Access(c)
    /\ \/ \E t \in ResponseTexts(c) :
            /\ response' = [response EXCEPT ![c] = t]
            /\ pc' = [pc EXCEPT ![c] = "delete"]
            /\ UNCHANGED <<video_file, result, raised>>
       \/ \E e \in Exceptions : Raise(c, e)
    /\ UNCHANGED remote
    /\ UNCHANGED <<mainVars, storeVars, configVars>>

\* genai.delete_file(video_file.name); return response.text
Delete(c) ==
    /\ Alive
    /\ pc[c] = "delete"
    /\ Count(c, "delete_file")
    /\ Access(c)
    /\ \/ /\ remote' = [remote EXCEPT ![HandleOf(c)] = "released"]
          /\ Leave(c, "returned", response[c])
          /\ UNCHANGED raised
       \/ \E e \in Exceptions :
            /\ Raise(c, e)
            /\ UNCHANGED remote
    /\ UNCHANGED <<mainVars, storeVars, configVars>>

Task(c) == Start(c) \/ Upload(c) \/ While(c) \/ GetFile(c) \/ Generate(c) \/ Delete(c)

(* ----------------------------- main() ---------------------------------- *)
\* for video_file in target_clips: if output_file.exists(): continue
Skip ==
    /\ mpc = "submit"
    /\ idx <= NumClips
    /\ SkipExisting(script) /\ Exists(idx)
    /\ idx' = idx + 1
    /\ UNCHANGED <<mpc, futures, completed>>
    /\ UNCHANGED <<taskVars, storeVars, configVars>>

\* future = executor.submit(...); futures.append((future, video_file, timestamp))
Submit ==
    /\ mpc = "submit"
    /\ idx <= NumClips
    /\ ~(SkipExisting(script) /\ Exists(idx))
    /\ pc' = [pc EXCEPT ![idx] = "queued"]
    /\ futures' = Append(futures, idx)
    /\ idx' = idx + 1
    /\ UNCHANGED <<mpc, completed>>
    /\ UNCHANGED <<video_file, response, result, remote, ncalls, raised, touched>>
    /\ UNCHANGED <<storeVars, configVars>>

\* the submit loop is exhausted; the collect loop begins
EndSubmit ==
    /\ mpc = "submit"
    /\ idx > NumClips
    /\ mpc' = "collect"
    /\ idx' = 1
    /\ UNCHANGED <<futures, completed>>
    /\ UNCHANGED <<taskVars, storeVars, configVars>>

\* for future, video_file, timestamp in futures: the collect loop takes the
\* futures in the order of the list, not as they complete
AwaitedAsCompleted ==
    LET ready == {i \in idx..Len(futures) : pc[futures[i]] = "returned"}
    IN  IF ready = {} THEN futures[idx]
        ELSE futures[CHOOSE i \in ready : \A j \in ready : j <= i]
Awaited == futures[idx]

\* result = future.result(); with open(output_file, 'w') as f:
\* open creates or truncates the file before anything is written to it
CollectOpen ==
    /\ mpc = "collect"
    /\ idx <= Len(futures)
    /\ pc[Awaited] = "returned"
    /\ file' = [file EXCEPT ![OutputFile(Awaited)] = PARTIAL]
    /\ origin' = [origin EXCEPT ![OutputFile(Awaited)] = "none"]
    /\ mpc' = "write"
    /\ UNCHANGED <<idx, futures, completed>>
    /\ UNCHANGED <<taskVars, configVars>>

\* f.write(...) x4, the file is closed, completed += 1
CollectWrite ==
    /\ mpc = "write"
    /\ LET c == Awaited IN
         /\ file' = [file EXCEPT ![OutputFile(c)] = Record(c, result[c])]
         /\ origin' = [origin EXCEPT ![OutputFile(c)] =
                          IF remote[c] = "released" THEN "DONE" ELSE "FAILED"]
    /\ completed' = completed + 1
    /\ idx' = idx + 1
    /\ mpc' = "collect"
    /\ UNCHANGED futures
    /\ UNCHANGED <<taskVars, configVars>>

\* except Exception as e: print(...) -- open() or a write raised (OSError)
CollectError ==
    /\ \/ /\ mpc = "collect"
          /\ idx <= Len(futures)
          /\ pc[Awaited] = "returned"
       \/ mpc = "write"
    /\ idx' = idx + 1
    /\ mpc' = AfterCollectError
    /\ UNCHANGED <<futures, completed>>
    /\ UNCHANGED <<taskVars, storeVars, configVars>>

\* the collect loop is exhausted; the executor is shut down and main() returns
EndCollect ==
    /\ mpc = "collect"
    /\ idx > Len(futures)
    /\ mpc' = "finished"
    /\ UNCHANGED <<idx, futures, completed>>
    /\ UNCHANGED <<taskVars, storeVars, configVars>>

\* the process is interrupted (operator interrupt, kill): its memory is gone,
\* the output directory and the uploads at the capability stay as they are
Interrupt ==
    /\ Alive
    /\ mpc' = "interrupted"
    /\ idx' = 1
    /\ futures' = <<>>
    /\ completed' = 0
    /\ pc' = [c \in Clips |-> "none"]
    /\ video_file' = [c \in Clips |-> "none"]
    /\ response' = [c \in Clips |-> <<>>]
    /\ result' = [c \in Clips |-> <<>>]
    /\ ncalls' = [c \in Clips |-> NoCalls]
    /\ raised' = [c \in Clips |-> "none"]
    /\ touched' = [c \in Clips |-> {}]
    /\ UNCHANGED <<remote, storeVars, configVars>>

\* the script is invoked again over the same output directory
StartRun ==
    /\ ~Alive
    /\ run < MaxRuns
    /\ run' = run + 1
    /\ resumed' = (mpc = "interrupted")
    /\ atStart' = [c \in Clips |-> Held(c)]
    /\ mpc' = "submit"
    /\ idx' = 1
    /\ futures' = <<>>
    /\ completed' = 0
    /\ pc' = [c \in Clips |-> "none"]
    /\ video_file' = [c \in Clips |-> "none"]
    /\ response' = [c \in Clips |-> <<>>]
    /\ result' = [c \in Clips |-> <<>>]
    /\ remote' = [c \in Clips |-> "none"]
    /\ ncalls' = [c \in Clips |-> NoCalls]
    /\ raised' = [c \in Clips |-> "none"]
    /\ touched' = [c \in Clips |-> {}]
    /\ UNCHANGED <<script, max_workers, storeVars, agentVars, enumVars, synthVars, recordVars, probeVars>>

Main == Skip \/ Submit \/ EndSubmit \/ CollectOpen \/ CollectWrite \/ CollectError \/ EndCollect

Next ==
    \/ \E c \in Clips : Task(c)
    \/ Main
    \/ Interrupt
    \/ StartRun

Spec == Init /\ [][Next]_vars

\* One invocation of the script, not interrupted, over an output directory
\* that may already hold records of an earlier invocation.
RunInit ==
    /\ script \in Scripts
    /\ max_workers \in 1..MaxThreads
    /\ run = 1
    /\ mpc = "submit"
    /\ idx = 1
    /\ futures = <<>>
    /\ completed = 0
    /\ pc = [c \in Clips |-> "none"]
    /\ video_file = [c \in Clips |-> "none"]
    /\ response = [c \in Clips |-> <<>>]
    /\ result = [c \in Clips |-> <<>>]
    /\ remote = [c \in Clips |-> "none"]
    /\ ncalls = [c \in Clips |-> NoCalls]
    /\ raised = [c \in Clips |-> "none"]
    /\ touched = [c \in Clips |-> {}]
    /\ \E done \in SUBSET Clips :
          /\ file = [c \in Clips |-> IF c \in done
                                       THEN Record(c, <<"KICKOUT: YES">>) ELSE ABSENT]
          /\ origin = [c \in Clips |-> IF c \in done THEN "DONE" ELSE "none"]
          /\ atStart = [c \in Clips |-> IF c \in done THEN "DONE" ELSE "absent"]
    /\ resumed = FALSE
    /\ AgentIdle
    /\ EnumIdle
    /\ SynthIdle
    /\ RecordIdle
    /\ ProbeIdle

RunNext ==
    \/ \E c \in Clips : Task(c)
    \/ Main

RunSpec == RunInit /\ [][RunNext]_vars

\* the pool threads and the main thread keep running while the process lives
FairSpec == Spec /\ WF_vars(Main) /\ \A c \in Clips : WF_vars(Task(c))

TypeOK ==
    /\ script \in Scripts
    /\ max_workers \in 1..MaxThreads
    /\ run \in 1..MaxRuns
    /\ mpc \in {"submit", "collect", "write", "finished", "interrupted"}
    /\ completed \in 0..NumClips
    /\ \A c \in Clips : pc[c] \in {"none", "queued", "upload", "wait", "sleep",
                                   "generate", "delete", "returned"}
    /\ \A c \in Clips : remote[c] \in {"none", "live", "released"}

(* -------------------- 1.5-compress-agent.py ---------------------------- *)
analyzerVars == <<mainVars, taskVars, storeVars, script, max_workers, run, atStart,
                  resumed>>

\* no analyzer script is running
AnalyzerIdle ==
    /\ script = "1_analyze_clips"
    /\ max_workers = 1
    /\ run = 1
    /\ mpc = "finished"
    /\ idx = 1
    /\ futures = <<>>
    /\ completed = 0
    /\ pc = [c \in Clips |-> "none"]
    /\ video_file = [c \in Clips |-> "none"]
    /\ response = [c \in Clips |-> <<>>]
    /\ result = [c \in Clips |-> <<>>]
    /\ remote = [c \in Clips |-> "none"]
    /\ ncalls = [c \in Clips |-> NoCalls]
    /\ raised = [c \in Clips |-> "none"]
    /\ touched = [c \in Clips |-> {}]
    /\ file = [c \in Clips |-> ABSENT]
    /\ origin = [c \in Clips |-> "none"]
    /\ atStart = [c \in Clips |-> "absent"]
    /\ resumed = FALSE

\* response.text of the compression of one description
Summary(c) == [text |-> "compressed", of |-> c]

\* output_dir / f"{clip_name}_compressed.txt": one output file per description
CompressedFileShared(c) == 1
CompressedFile(c) == c

\* description_files[:args.max_clips], taken only `if args.max_clips`
Cut(files, cap) ==
    IF cap = <<>> \/ cap[1] = 0 THEN files
    ELSE SubSeq(files, 1, IF cap[1] < Len(files) THEN cap[1] ELSE Len(files))

\* `with results_lock:` is entered only while no thread holds the lock
LockFreeIgnored == TRUE
LockFree == results_lock = 0

\* tasks a pool thread is executing
AgentInFlight == {c \in Clips : tpc[c] \notin {"none", "queued", "returned"}}

\* the try block succeeded / the except block was entered
InOk  == {"acquire_ok", "load_ok", "store_ok", "release_ok"}
InErr == {"acquire_err", "load_err", "store_err", "release_err"}

AgentInit ==
    /\ AnalyzerIdle
    /\ EnumIdle
    /\ SynthIdle
    /\ RecordIdle
    /\ ProbeIdle
    /\ n_files \in 0..NumClips
    /\ max_clips \in {<<>>} \cup {<<n>> : n \in 0..NumClips}
    /\ threads \in 1..MaxThreads
    /\ description_files = <<>>
    /\ apc = "find"
    /\ aidx = 1
    /\ yielded = {}
    /\ acompleted = 0
    /\ tpc = [c \in Clips |-> "none"]
    /\ reg = [c \in Clips |-> 0]
    /\ ret = [c \in Clips |-> "none"]
    /\ compressed = [c \in Clips |-> ABSENT]
    /\ results_lock = 0
    /\ processed_count = 0
    /\ error_count = 0

\* the task moves to position p and touches nothing else
Goto(c, p) ==
    /\ tpc' = [tpc EXCEPT ![c] = p]
    /\ UNCHANGED <<n_files, max_clips, threads, description_files, apc, aidx, yielded,
                   acompleted, reg, ret, compressed, results_lock, processed_count,
                   error_count>>

\* a pool thread takes the work item and enters compress_clip_description
AgentStart(c) ==
    /\ apc \in {"submit", "wait"}
    /\ tpc[c] = "queued"
    /\ \A d \in Clips : d < c => tpc[d] # "queued"
    /\ Cardinality(AgentInFlight) < threads
    /\ Goto(c, "read")
    /\ UNCHANGED <<analyzerVars, enumVars, synthVars, recordVars, probeVars>>

\* with open(input_file, 'r') as f: detailed_content = f.read()
ReadDescription(c) ==
    /\ tpc[c] = "read"
    /\ Goto(c, "generate") \/ Goto(c, "acquire_err")
    /\ UNCHANGED <<analyzerVars, enumVars, synthVars, recordVars, probeVars>>

\* response = model.generate_content(compression_prompt)
Compress(c) ==
    /\ tpc[c] = "generate"
    /\ Goto(c, "open") \/ Goto(c, "acquire_err")
    /\ UNCHANGED <<analyzerVars, enumVars, synthVars, recordVars, probeVars>>

\* with open(output_file, 'w') as f: the file is created or truncated
OpenCompressed(c) ==
    /\ tpc[c] = "open"
    /\ \/ /\ compressed' = [compressed EXCEPT ![CompressedFile(c)] = PARTIAL]
          /\ tpc' = [tpc EXCEPT ![c] = "write"]
          /\ UNCHANGED <<n_files, max_clips, threads, description_files, apc, aidx,
                         yielded, acompleted, reg, ret, results_lock,
                         processed_count, error_count>>
       \/ Goto(c, "acquire_err")
    /\ UNCHANGED <<analyzerVars, enumVars, synthVars, recordVars, probeVars>>

\* f.write(response.text), the file is closed
WriteCompressed(c) ==
    /\ tpc[c] = "write"
    /\ \/ /\ compressed' = [compressed EXCEPT ![CompressedFile(c)] = Summary(c)]
          /\ tpc' = [tpc EXCEPT ![c] = "acquire_ok"]
          /\ UNCHANGED <<n_files, max_clips, threads, description_files, apc, aidx,
                         yielded, acompleted, reg, ret, results_lock,
                         processed_count, error_count>>
       \/ Goto(c, "acquire_err")
    /\ UNCHANGED <<analyzerVars, enumVars, synthVars, recordVars, probeVars>>

\* with results_lock: (after the write, or in the except block)
Acquire(c) ==
    /\ tpc[c] \in {"acquire_ok", "acquire_err"}
    /\ LockFree
    /\ results_lock' = c
    /\ tpc' = [tpc EXCEPT ![c] = IF tpc[c] = "acquire_ok" THEN "load_ok" ELSE "load_err"]
    /\ UNCHANGED <<n_files, max_clips, threads, description_files, apc, aidx, yielded,
                   acompleted, reg, ret, compressed, processed_count, error_count>>
    /\ UNCHANGED <<analyzerVars, enumVars, synthVars, recordVars, probeVars>>

\* processed_count += 1 / error_count += 1: the global is read ...
Load(c) ==
    /\ tpc[c] \in {"load_ok", "load_err"}
    /\ reg' = [reg EXCEPT ![c] = IF tpc[c] = "load_ok" THEN processed_count
                                                        ELSE error_count]
    /\ tpc' = [tpc EXCEPT ![c] = IF tpc[c] = "load_ok" THEN "store_ok" ELSE "store_err"]
    /\ UNCHANGED <<n_files, max_clips, threads, description_files, apc, aidx, yielded,
                   acompleted, ret, compressed, results_lock, processed_count,
                   error_count>>
    /\ UNCHANGED <<analyzerVars, enumVars, synthVars, recordVars, probeVars>>

\* ... and the sum is stored back
Store(c) ==
    /\ tpc[c] \in {"store_ok", "store_err"}
    /\ IF tpc[c] = "store_ok"
       THEN processed_count' = reg[c] + 1 /\ UNCHANGED error_count
       ELSE error_count' = reg[c] + 1 /\ UNCHANGED processed_count
    /\ reg' = [reg EXCEPT ![c] = 0]
    /\ tpc' = [tpc EXCEPT ![c] = IF tpc[c] = "store_ok" THEN "release_ok"
                                                         ELSE "release_err"]
    /\ UNCHANGED <<n_files, max_clips, threads, description_files, apc, aidx, yielded,
                   acompleted, ret, compressed, results_lock>>
    /\ UNCHANGED <<analyzerVars, enumVars, synthVars, recordVars, probeVars>>

\* the with block is left; return True / return False
Release(c) ==
    /\ tpc[c] \in {"release_ok", "release_err"}
    /\ results_lock' = 0
    /\ ret' = [ret EXCEPT ![c] = IF tpc[c] = "release_ok" THEN "True" ELSE "False"]
    /\ tpc' = [tpc EXCEPT ![c] = "returned"]
    /\ UNCHANGED <<n_files, max_clips, threads, description_files, apc, aidx, yielded,
                   acompleted, reg, compressed, processed_count, error_count>>
    /\ UNCHANGED <<analyzerVars, enumVars, synthVars, recordVars, probeVars>>

AgentTask(c) ==
    \/ AgentStart(c) \/ ReadDescription(c) \/ Compress(c) \/ OpenCompressed(c)
    \/ WriteCompressed(c) \/ Acquire(c) \/ Load(c) \/ Store(c) \/ Release(c)

\* description_files = sorted(glob), cut to --max-clips; return when empty
FindDescriptions ==
    /\ apc = "find"
    /\ description_files' = Cut([i \in 1..n_files |-> i], max_clips)
    /\ apc' = IF description_files' = <<>> THEN "no_files" ELSE "submit"
    /\ UNCHANGED <<n_files, max_clips, threads, aidx, yielded, acompleted, tpc, reg,
                   ret, compressed, results_lock, processed_count, error_count>>
    /\ UNCHANGED <<analyzerVars, enumVars, synthVars, recordVars, probeVars>>

\* future = executor.submit(compress_clip_description, desc_file, output_dir)
AgentSubmit ==
    /\ apc = "submit"
    /\ aidx <= Len(description_files)
    /\ tpc' = [tpc EXCEPT ![description_files[aidx]] = "queued"]
    /\ aidx' = aidx + 1
    /\ UNCHANGED <<n_files, max_clips, threads, description_files, apc, yielded,
                   acompleted, reg, ret, compressed, results_lock, processed_count,
                   error_count>>
    /\ UNCHANGED <<analyzerVars, enumVars, synthVars, recordVars, probeVars>>

\* the submit loop is exhausted; completed = 0
AgentEndSubmit ==
    /\ apc = "submit"
    /\ aidx > Len(description_files)
    /\ apc' = "wait"
    /\ UNCHANGED <<n_files, max_clips, threads, description_files, aidx, yielded,
                   acompleted, tpc, reg, ret, compressed, results_lock,
                   processed_count, error_count>>
    /\ UNCHANGED <<analyzerVars, enumVars, synthVars, recordVars, probeVars>>

\* for future in as_completed(futures): completed += 1
AsCompleted ==
    /\ apc = "wait"
    /\ \E c \in Clips \ yielded :
          /\ tpc[c] = "returned"
          /\ yielded' = yielded \cup {c}
    /\ acompleted' = acompleted + 1
    /\ UNCHANGED <<n_files, max_clips, threads, description_files, apc, aidx, tpc, reg,
                   ret, compressed, results_lock, processed_count, error_count>>
    /\ UNCHANGED <<analyzerVars, enumVars, synthVars, recordVars, probeVars>>

\* as_completed is exhausted; the executor is shut down, the summary printed
AgentFinish ==
    /\ apc = "wait"
    /\ yielded = {description_files[i] : i \in 1..Len(description_files)}
    /\ apc' = "finished"
    /\ UNCHANGED <<n_files, max_clips, threads, description_files, aidx, yielded,
                   acompleted, tpc, reg, ret, compressed, results_lock,
                   processed_count, error_count>>
    /\ UNCHANGED <<analyzerVars, enumVars, synthVars, recordVars, probeVars>>

AgentMain == FindDescriptions \/ AgentSubmit \/ AgentEndSubmit \/ AsCompleted \/ AgentFinish

AgentNext ==
    \/ \E c \in Clips : AgentTask(c)
    \/ AgentMain

AgentSpec == AgentInit /\ [][AgentNext]_vars

(* ------------- listing a results directory, decoding offsets ----------- *)
\* The collecting functions of the synthesis scripts: each globs *.txt, sorts
\* the paths, decodes the clip's start time and builds one entry per file.
\* A string is a sequence of one-character strings.
Collectors == {"synthesize_kickouts_json", "synthesize_existing_results",
               "2-synthesize_kickouts", "synthesize_patterns"}

DigitChars == <<"0", "1", "2", "3", "4", "5", "6", "7", "8", "9">>

\* the characters of the names, in code point order (sorted() compares by it)
CodePoints == <<".", "0", "1", "2", "3", "4", "5", "6", "7", "8", "9", ":", "_",
                "a", "b", "c", "d", "e", "f", "g", "h", "i", "j", "k", "l", "m",
                "n", "o", "p", "q", "r", "s", "t", "u", "v", "w", "x", "y", "z">>

ord(ch) == CHOOSE i \in 1..Len(CodePoints) : CodePoints[i] = ch

IsDigit(ch) == \E i \in 1..Len(DigitChars) : DigitChars[i] = ch

DigitValue(ch) == (CHOOSE i \in 1..Len(DigitChars) : DigitChars[i] = ch) - 1

\* \d+ matches this string
IsDigits(str) == Len(str) > 0 /\ \A i \in 1..Len(str) : IsDigit(str[i])

\* int(str) of a string of digits
RECURSIVE int(_)
intLastDigit(str) == DigitValue(str[Len(str)])
int(str) ==
    IF Len(str) = 1 THEN DigitValue(str[1])
    ELSE int(SubSeq(str, 1, Len(str) - 1)) * 10 + DigitValue(str[Len(str)])

\* f"{n:02d}"
RECURSIVE Decimal(_)
Decimal(n) ==
    IF n < 10 THEN <<DigitChars[n + 1]>>
    ELSE Decimal(n \div 10) \o <<DigitChars[(n % 10) + 1]>>

Format02d(n) == IF n < 10 THEN <<"0">> \o Decimal(n) ELSE Decimal(n)

\* lit occurs in str at position i
At(str, i, lit) ==
    /\ i >= 1
    /\ i + Len(lit) - 1 <= Len(str)
    /\ SubSeq(str, i, i + Len(lit) - 1) = lit

\* length of the longest run of digits of str that starts at position i
RECURSIVE DigitRun(_, _)
DigitRun(str, i) ==
    IF i <= Len(str) /\ IsDigit(str[i]) THEN 1 + DigitRun(str, i + 1) ELSE 0

\* str.replace(old, new)
RECURSIVE replace(_, _, _)
replace(str, old, new) ==
    IF str = <<>> THEN <<>>
    ELSE IF At(str, 1, old)
         THEN new \o replace(SubSeq(str, Len(old) + 1, Len(str)), old, new)
         ELSE <<Head(str)>> \o replace(Tail(str), old, new)

\* str.split(sep), sep one character
RECURSIVE split(_, _)
split(str, sep) ==
    IF \A i \in 1..Len(str) : str[i] # sep THEN <<str>>
    ELSE LET i == CHOOSE k \in 1..Len(str) :
                      str[k] = sep /\ \A j \in 1..(k - 1) : str[j] # sep
         IN  <<SubSeq(str, 1, i - 1)>> \o split(SubSeq(str, i + 1, Len(str)), sep)

\* a < b as Python compares two strings
StrLess(a, b) ==
    \E k \in 1..(Len(a) + 1) :
        /\ \A j \in 1..(k - 1) : j <= Len(b) /\ a[j] = b[j]
        /\ k <= Len(b)
        /\ k > Len(a) \/ ord(a[k]) < ord(b[k])

\* sorted(...) of a set of distinct names
RECURSIVE sorted(_)
sorted(names) ==
    IF names = {} THEN <<>>
    ELSE LET first == CHOOSE x \in names : \A y \in names \ {x} : StrLess(x, y)
         IN  <<first>> \o sorted(names \ {first})

clip_ == <<"c", "l", "i", "p", "_">>
txt   == <<".", "t", "x", "t">>
mp4   == <<".", "m", "p", "4">>

\* the splitter's name of the clip that starts at minute mm, second ss
\* (clip_<MM>m<SS>s, two digits each)
ClipStem(mm, ss) == clip_ \o mm \o <<"m">> \o ss \o <<"s">>
TwoDigits(n) == <<DigitChars[(n \div 10) + 1], DigitChars[(n % 10) + 1]>>
Encoded == {<<0, 0>>, <<0, 15>>, <<1, 0>>, <<9, 45>>, <<10, 0>>}
EncodedStem(p) == ClipStem(TwoDigits(p[1]), TwoDigits(p[2]))

\* stems of the *.txt files a results directory may hold: names of the
\* encoding, names with other digit counts or seconds, and other files
Stems ==
    {EncodedStem(p) : p \in Encoded}
    \cup {ClipStem(<<"1">>, <<"0", "0">>), ClipStem(<<"9">>, <<"4", "5">>),
          ClipStem(<<"0", "0">>, <<"6", "0">>), ClipStem(<<"1", "0", "0">>, <<"0", "0">>),
          ClipStem(<<"0", "9">>, <<"6", "0">>)}
    \cup {<<"n", "o", "t", "e", "s">>, <<"c", "l", "i", "p", "_", "a", "b">>, EncodedStem(<<0, 15>>) \o <<"_", "c", "o", "m", "p", "r", "e", "s", "s", "e", "d">>}

\* the analyzers list the *.mp4 clips, the synthesis scripts the *.txt results
FileName(stem) == stem \o (IF collector \in Scripts THEN mp4 ELSE txt)

\* file_path.stem of a *.txt name
StemOf(name) == SubSeq(name, 1, Len(name) - Len(txt))

\* timestamp = stem.replace('clip_', '').replace('m', ':').replace('s', '')
Timestamp(stem) == replace(replace(replace(stem, clip_, <<>>), <<"m">>, <<":">>), <<"s">>, <<>>)

\* the header lines an analyzer wrote into the file of this name
\* (TIMESTAMP: {timestamp}, CLIP_FILE: {video_file.name})
Content(name) ==
    [TIMESTAMP |-> Timestamp(StemOf(name)), CLIP_FILE |-> StemOf(name) \o mp4]

NoMatch == [matched |-> FALSE]

\* clip_(\d+)m(\d+)s followed by the suffix, tried at position i of str
MatchAt(str, i, suffix) ==
    LET a == i + Len(clip_)
        k == DigitRun(str, a)
        b == a + k
        j == DigitRun(str, b + 1)
        e == b + 1 + j
    IN  IF /\ At(str, i, clip_)
           /\ k >= 1
           /\ At(str, b, <<"m">>)
           /\ j >= 1
           /\ At(str, e, <<"s">> \o suffix)
        THEN [matched |-> TRUE, group1 |-> SubSeq(str, a, b - 1),
              group2 |-> SubSeq(str, b + 1, e - 1)]
        ELSE NoMatch

\* re.search(r'clip_(\d+)m(\d+)s\.txt', file_path.name): the leftmost match
SearchName(name) ==
    LET starts == {i \in 1..Len(name) : MatchAt(name, i, txt).matched}
    IN  IF starts = {} THEN NoMatch
        ELSE MatchAt(name, CHOOSE i \in starts : \A j \in starts : i <= j, txt)

\* re.search(r'TIMESTAMP: (\d+:\d+)', content), on the value of the header
SearchTimestamp(value) ==
    LET k == DigitRun(value, 1)
        j == DigitRun(value, k + 2)
    IN  IF k >= 1 /\ At(value, k + 1, <<":">>) /\ j >= 1
        THEN [matched |-> TRUE, group1 |-> SubSeq(value, 1, k + 1 + j)]
        ELSE NoMatch

\* re.search(r'CLIP_FILE: (clip_\d+m\d+s\.mp4)', content), on the value of the header
SearchClipFile(value) == MatchAt(value, 1, mp4)

\* convert_timestamp_to_seconds: 0 unless the timestamp is two integers around ':'
convert_timestamp_leading(timestamp) ==
    LET parts == split(timestamp, ":")
    IN  IF Len(parts) >= 2 /\ IsDigits(parts[1]) /\ DigitRun(parts[2], 1) >= 1
        THEN int(parts[1]) * 60 + int(SubSeq(parts[2], 1, DigitRun(parts[2], 1)))
        ELSE 0
convert_timestamp_to_seconds(timestamp) ==
    LET parts == split(timestamp, ":")
    IN  IF Len(parts) = 2 /\ IsDigits(parts[1]) /\ IsDigits(parts[2])
        THEN int(parts[1]) * 60 + int(parts[2])
        ELSE 0

\* `lit in str`
Contains(str, lit) == \E i \in 1..Len(str) : At(str, i, lit)

\* TIME_LIMIT_MINUTES = 10  # Analyze first 10 minutes
TIME_LIMIT_MINUTES == 10

\* if minutes < TIME_LIMIT_MINUTES
WithinLimitInclusive(minutes) == minutes <= TIME_LIMIT_MINUTES
WithinLimit(minutes) == minutes < TIME_LIMIT_MINUTES

\* parts = clip.stem.replace("clip_", "").split("m")
StemParts(name) == split(replace(StemOf(name), clip_, <<>>), "m")

\* the file is given an entry by the collecting function
Accepts(name) ==
    CASE collector \in {"synthesize_kickouts_json", "synthesize_existing_results"} ->
            SearchName(name).matched
      [] collector = "2-synthesize_kickouts" ->
            /\ SearchTimestamp(Content(name).TIMESTAMP).matched
            /\ SearchClipFile(Content(name).CLIP_FILE).matched
      [] collector = "synthesize_patterns" -> TRUE
      [] collector = "1_analyze_clips" ->
            /\ Contains(name, clip_)
            /\ IsDigits(StemParts(name)[1])
            /\ WithinLimit(int(StemParts(name)[1]))
      [] collector = "1-analyze_clips" -> TRUE

\* the entry appended for the file
Entry(name) ==
    CASE collector \in {"synthesize_kickouts_json", "synthesize_existing_results"} ->
            LET minutes == int(SearchName(name).group1)
                seconds == int(SearchName(name).group2)
            IN  [file |-> name,
                 clip_start_time |-> minutes * 60 + seconds,
                 timestamp |-> Format02d(minutes) \o <<":">> \o Format02d(seconds)]
      [] collector = "2-synthesize_kickouts" ->
            LET timestamp == SearchTimestamp(Content(name).TIMESTAMP).group1
                parts == split(timestamp, ":")
            IN  [file |-> name,
                 clip_start_time |-> int(parts[1]) * 60 + int(parts[2]),
                 timestamp |-> timestamp]
      [] collector = "synthesize_patterns" ->
            [file |-> name, timestamp |-> Timestamp(StemOf(name))]
      [] collector \in Scripts ->
            [file |-> name, timestamp |-> Timestamp(StemOf(name))]

\* the start time the next stage reads from an entry
OffsetOf(entry) ==
    IF collector \in {"synthesize_patterns"} \cup Scripts
    THEN convert_timestamp_to_seconds(entry.timestamp)
    ELSE entry.clip_start_time

\* list.sort(key=...) by start time: stable
RECURSIVE SortByTime(_)
SortByTime(list) ==
    IF list = <<>> THEN <<>>
    ELSE LET rest == SortByTime(Tail(list))
             k == Cardinality({i \in 1..Len(rest) : OffsetOf(rest[i]) < OffsetOf(Head(list))})
         IN  SubSeq(rest, 1, k) \o <<Head(list)>> \o SubSeq(rest, k + 1, Len(rest))

\* the function sorts its entries by start time before they are used
SortsByTime(col) ==
    col \in {"synthesize_existing_results", "2-synthesize_kickouts", "synthesize_patterns"}

EnumInit ==
    /\ AnalyzerIdle
    /\ AgentIdle
    /\ SynthIdle
    /\ RecordIdle
    /\ ProbeIdle
    /\ collector \in Collectors
    /\ listing \in {dir \in SUBSET Stems : Cardinality(dir) <= MaxFiles}
    /\ analysis_files = <<>>
    /\ eidx = 1
    /\ descriptions = <<>>
    /\ epc = "glob"

\* analysis_files = sorted(Path(clips_dir).glob("*.txt"))
Glob ==
    /\ epc = "glob"
    /\ analysis_files' = sorted({FileName(stem) : stem \in listing})
    /\ epc' = "loop"
    /\ UNCHANGED <<collector, listing, eidx, descriptions>>
    /\ UNCHANGED <<analyzerVars, agentVars, synthVars, recordVars, probeVars>>

\* the file is read and its start time decoded; an entry is appended
Collect ==
    /\ epc = "loop"
    /\ eidx <= Len(analysis_files)
    /\ Accepts(analysis_files[eidx])
    /\ descriptions' = Append(descriptions, Entry(analysis_files[eidx]))
    /\ eidx' = eidx + 1
    /\ UNCHANGED <<collector, listing, analysis_files, epc>>
    /\ UNCHANGED <<analyzerVars, agentVars, synthVars, recordVars, probeVars>>

\* `if timestamp_match:` fails: the file gets no entry
Ignore ==
    /\ epc = "loop"
    /\ eidx <= Len(analysis_files)
    /\ ~Accepts(analysis_files[eidx])
    /\ eidx' = eidx + 1
    /\ UNCHANGED <<collector, listing, analysis_files, descriptions, epc>>
    /\ UNCHANGED <<analyzerVars, agentVars, synthVars, recordVars, probeVars>>

\* except Exception as e: print(...) -- the file could not be read
ReadError ==
    /\ epc = "loop"
    /\ eidx <= Len(analysis_files)
    /\ eidx' = eidx + 1
    /\ UNCHANGED <<collector, listing, analysis_files, descriptions, epc>>
    /\ UNCHANGED <<analyzerVars, agentVars, synthVars, recordVars, probeVars>>

\* results.sort(key=lambda x: x['clip_start_time']); return results
SortAndReturn ==
    /\ epc = "loop"
    /\ eidx > Len(analysis_files)
    /\ SortsByTime(collector)
    /\ descriptions' = SortByTime(descriptions)
    /\ epc' = "returned"
    /\ UNCHANGED <<collector, listing, analysis_files, eidx>>
    /\ UNCHANGED <<analyzerVars, agentVars, synthVars, recordVars, probeVars>>

\* return descriptions
Return ==
    /\ epc = "loop"
    /\ eidx > Len(analysis_files)
    /\ ~SortsByTime(collector)
    /\ epc' = "returned"
    /\ UNCHANGED <<collector, listing, analysis_files, eidx, descriptions>>
    /\ UNCHANGED <<analyzerVars, agentVars, synthVars, recordVars, probeVars>>

EnumNext == Glob \/ Collect \/ Ignore \/ ReadError \/ SortAndReturn \/ Return

EnumSpec == EnumInit /\ [][EnumNext]_vars

\* main() of an analyzer lists the clips directory and selects the clips it
\* will submit: target_clips (1_analyze_clips.py, analyze_first_10min.py) or
\* every *.mp4 (1-analyze_clips.py); an entry is a clip that is submitted
SelectInit ==
    /\ AnalyzerIdle
    /\ AgentIdle
    /\ SynthIdle
    /\ RecordIdle
    /\ ProbeIdle
    /\ collector \in Scripts
    /\ listing \in {dir \in SUBSET Stems : Cardinality(dir) <= MaxFiles}
    /\ analysis_files = <<>>
    /\ eidx = 1
    /\ descriptions = <<>>
    /\ epc = "glob"

SelectNext == Glob \/ Collect \/ Ignore \/ Return

SelectSpec == SelectInit /\ [][SelectNext]_vars

(* ------------------------- synthesis scripts ---------------------------- *)
\* the scripts that build a timeline of recurring events (kickouts) and the
\* one that finds the four boundaries of the match (halftime patterns)
Recurring == {"2-synthesize_kickouts", "synthesize_kickouts_json",
              "synthesize_existing_results"}
Synthesizers == Recurring \cup {"synthesize_patterns"}

\* the ANALYSIS text of a clip that was analyzed, in the format the analyzer's
\* prompt asks for: KICKOUT: [YES/NO], CONFIDENCE: [1-10]
AnalysisText(kickout, confidence) == <<"KICKOUT:", kickout, "CONFIDENCE:", confidence>>

\* the ANALYSIS text of a clip whose analysis failed:
\* f"❌ Error analyzing {clip_path}: {str(e)}"
ErrorLine == <<"Error", "analyzing">>

Contents == {AnalysisText("YES", "8"), AnalysisText("YES", "6"),
             AnalysisText("NO", "8"), ErrorLine}

\* the clip whose analysis the i-th result file holds starts at 12:03, 12:06, ...
ClipStart(i) == 720 + 3 * i

\* an element of `results`: the decoded start time and the content of the file
Result(i, content) == [clip_start_time |-> ClipStart(i), content |-> content]

\* what collect_analysis_results can return for a directory of up to
\* MaxResults result files, sorted by clip_start_time
ResultLists ==
    UNION {{[i \in 1..n |-> Result(i, contents[i])] : contents \in [1..n -> Contents]} :
           n \in 0..MaxResults}

\* the descriptions of a match: a throw-in at 00:00, the players leaving at
\* 34:58, a throw-in at 35:10 and the final whistle at 69:40
Match ==
    <<[clip_start_time |-> 0,    content |-> <<"PHASE_START", "9">>],
      [clip_start_time |-> 2098, content |-> <<"BREAK", "8">>],
      [clip_start_time |-> 2110, content |-> <<"PHASE_START", "9">>],
      [clip_start_time |-> 4180, content |-> <<"MATCH_END", "9">>]>>

\* what read_all_descriptions can return: the descriptions of the first clips
DescriptionLists == {SubSeq(Match, 1, n) : n \in 0..Len(Match)}

\* "KICKOUT: YES" in result['content']
KickoutYes(res) == Contains(res.content, <<"KICKOUT:", "YES">>)

\* for result in analysis_results: if "KICKOUT: YES" in result['content']:
\*     kickout_results.append(result)
RECURSIVE kickout_results(_)
kickout_results(results) ==
    IF results = <<>> THEN <<>>
    ELSE IF KickoutYes(Head(results))
         THEN <<Head(results)>> \o kickout_results(Tail(results))
         ELSE kickout_results(Tail(results))

\* the results pasted into the prompt: synthesize_existing_results.py keeps
\* those with KICKOUT: YES, the other scripts paste every result
Material(results) ==
    IF synth = "synthesize_existing_results" THEN kickout_results(results) ELSE results

\* an entry of the "kickouts" list the model answers with, for a result of the
\* prompt that reports a kickout: its time and its confidence
Event(res) ==
    [time |-> res.clip_start_time, confidence |-> DigitValue(res.content[4])]

RECURSIVE Events(_, _)
Events(results, chosen) ==
    IF results = <<>> THEN <<>>
    ELSE IF Head(results) \in chosen
         THEN <<Event(Head(results))>> \o Events(Tail(results), chosen)
         ELSE Events(Tail(results), chosen)

\* response.text of the synthesis call for a timeline of kickouts: a JSON
\* document listing some of the reported kickouts with a total the model
\* states, text with no JSON object in it, or braces that are not JSON
JsonResponses(material) ==
    LET reported == {material[i] : i \in {j \in 1..Len(material) : KickoutYes(material[j])}}
    IN  {[kind |-> "json", kickouts |-> Events(material, chosen), total_kickouts |-> total] :
            chosen \in SUBSET reported, total \in 0..MaxResults}
        \cup {[kind |-> "text"], [kind |-> "braces"]}

\* the descriptions of the prompt that read as the given category
Candidates(material, category) ==
    {material[i].clip_start_time :
        i \in {j \in 1..Len(material) : material[j].content[1] = category}}

\* a line "FIRST HALF START: [MM:SS]" of the answer: one time, or none given
Picks(times) == {{}} \cup {{t} : t \in times}

\* response.text of the synthesis call for the halftime patterns: for each of
\* the four lines a time taken from a description of the category, or none
TextResponses(material) ==
    {[kind |-> "text", first_half_start |-> s1, first_half_end |-> e1,
      second_half_start |-> s2, match_end |-> e2] :
        s1 \in Picks(Candidates(material, "PHASE_START")),
        e1 \in Picks(Candidates(material, "BREAK")),
        s2 \in Picks(Candidates(material, "PHASE_START")),
        e2 \in Picks(Candidates(material, "MATCH_END"))}

\* datetime.now().strftime('%Y-%m-%d %H:%M:%S'): the second the file is written in
Clock == {"12:00:00", "12:00:01"}

SynthInit ==
    /\ AnalyzerIdle
    /\ AgentIdle
    /\ EnumIdle
    /\ RecordIdle
    /\ ProbeIdle
    /\ synth \in Synthesizers
    /\ analysis_results \in IF synth = "synthesize_patterns" THEN DescriptionLists
                            ELSE ResultLists
    /\ spc = "main"
    /\ prompt = <<>>
    /\ synth_response = None
    /\ kickout_data = None
    /\ timeline = None
    /\ previous = None

SynthStep(p) ==
    /\ spc' = p
    /\ UNCHANGED <<synth, analysis_results, previous>>
    /\ UNCHANGED <<analyzerVars, agentVars, enumVars, recordVars, probeVars>>

\* if not analysis_results: return
AfterCollectedUnchecked(results) == "prompt"
AfterCollected(results) == IF results = <<>> THEN "exit" ELSE "prompt"

\* main(): the collecting function has returned
Collected ==
    /\ spc = "main"
    /\ SynthStep(AfterCollected(analysis_results))
    /\ UNCHANGED <<prompt, synth_response, kickout_data, timeline>>

\* the synthesis function builds the prompt; synthesize_existing_results.py
\* returns None when no result reports a kickout
BuildPrompt ==
    /\ spc = "prompt"
    /\ prompt' = Material(analysis_results)
    /\ SynthStep(IF synth = "synthesize_existing_results"
                        /\ Material(analysis_results) = <<>>
                 THEN "exit" ELSE "generate")
    /\ UNCHANGED <<synth_response, kickout_data, timeline>>

\* response = model.generate_content(prompt)
GenerateContent ==
    /\ spc = "generate"
    /\ synth_response' \in IF synth = "synthesize_patterns" THEN TextResponses(prompt)
                           ELSE JsonResponses(prompt)
    /\ SynthStep(IF synth = "synthesize_patterns" THEN "write" ELSE "extract")
    /\ UNCHANGED <<prompt, kickout_data, timeline>>

\* generate_content raises: except Exception -> return None (the kickout
\* scripts), except Exception -> print (synthesize_patterns.py)
GenerateRaises ==
    /\ spc = "generate"
    /\ SynthStep("exit")
    /\ UNCHANGED <<prompt, synth_response, kickout_data, timeline>>

\* main(): if not kickout_data: print("Synthesis failed"); return
AfterSynthesisUnchecked(data) == "save"
AfterSynthesis(data) == IF data = None THEN "exit" ELSE "save"

\* json_match = re.search(r'\{.*\}', response.text, re.DOTALL);
\* return json.loads(json_text), or None when there is no match or loads raises
ExtractJson ==
    /\ spc = "extract"
    /\ kickout_data' = IF synth_response.kind = "json" THEN synth_response ELSE None
    /\ SynthStep(AfterSynthesis(kickout_data'))
    /\ UNCHANGED <<prompt, synth_response, timeline>>

\* save_results(kickout_data): json.dump(kickout_data), and the timeline file
\* with "events": kickout_data['kickouts'] and the statistics of kickout_data
SaveResults ==
    /\ spc = "save"
    /\ timeline' = [events |-> kickout_data.kickouts,
                    total_kickouts |-> kickout_data.total_kickouts]
    /\ SynthStep("exit")
    /\ UNCHANGED <<prompt, synth_response, kickout_data>>

\* synthesize_patterns.py main(): the header lines and f.write(synthesis_result)
WriteAnalysis ==
    /\ spc = "write"
    /\ \E now \in Clock :
          timeline' = [Generated |-> now, Input_clips |-> Len(analysis_results),
                       synthesis_result |-> synth_response]
    /\ SynthStep("exit")
    /\ UNCHANGED <<prompt, synth_response, kickout_data>>

\* the script is run again on the same results directory
RunAgain ==
    /\ spc = "exit"
    /\ timeline # None
    /\ previous = None
    /\ previous' = timeline
    /\ spc' = "main"
    /\ prompt' = <<>>
    /\ synth_response' = None
    /\ kickout_data' = None
    /\ timeline' = None
    /\ UNCHANGED <<synth, analysis_results>>
    /\ UNCHANGED <<analyzerVars, agentVars, enumVars, recordVars, probeVars>>

SynthNext ==
    \/ Collected
    \/ BuildPrompt
    \/ GenerateContent
    \/ GenerateRaises
    \/ ExtractJson
    \/ SaveResults
    \/ WriteAnalysis
    \/ RunAgain

SynthSpec == SynthInit /\ [][SynthNext]_vars

\* a run of one of the scripts that stop when they are given nothing to work
\* on: the compression agent or a synthesis script
BatchInit == AgentInit \/ SynthInit

BatchNext == AgentNext \/ SynthNext

BatchSpec == BatchInit /\ [][BatchNext]_vars

(* ---------------- a record written and read back ------------------------ *)
\* analyze_half_clips writes the record of a clip; collect_analysis_results
\* of 2-synthesize_kickouts.py reads it back. The content of the file is a
\* sequence of lines; a line is the text up to and including ": " (label) and
\* the rest (value).
Line(label, value) == [label |-> label, value |-> value]

\* lines a response.text can hold: an answer in the format asked for, and
\* lines that read like the header lines of a record
TextLines ==
    {Line("KICKOUT: ", <<"Y", "E", "S">>),
     Line("TIMESTAMP: ", <<"9", "9", ":", "5", "9">>),
     Line("CLIP_FILE: ", ClipStem(<<"9", "9">>, <<"5", "9">>) \o mp4)}

\* the texts of up to MaxLines lines
Texts == UNION {[1..n -> TextLines] : n \in 0..MaxLines}

\* f.write(f"HALF: {half_name}\n") ... f.write(f"ANALYSIS:\n{result}\n")
RecordLines(stem, half, text) ==
    <<Line("HALF: ", <<half>>),
      Line("TIMESTAMP: ", Timestamp(stem)),
      Line("CLIP_FILE: ", stem \o mp4),
      Line("QUERY: ", <<"GAA Kickout Detection">>),
      Line("ANALYSIS:", <<>>)>> \o text

\* re.search returns the leftmost match of the pattern in the content
Rightmost(hits) == CHOOSE i \in hits : \A j \in hits : j <= i
Leftmost(hits) == CHOOSE i \in hits : \A j \in hits : i <= j

\* re.search(r'TIMESTAMP: (\d+:\d+)', content)
timestamp_match(content) ==
    LET hits == {i \in 1..Len(content) :
                    /\ content[i].label = "TIMESTAMP: "
                    /\ SearchTimestamp(content[i].value).matched}
    IN  IF hits = {} THEN NoMatch ELSE SearchTimestamp(content[Leftmost(hits)].value)

\* re.search(r'CLIP_FILE: (clip_\d+m\d+s\.mp4)', content)
clip_file_match(content) ==
    LET hits == {i \in 1..Len(content) :
                    /\ content[i].label = "CLIP_FILE: "
                    /\ SearchClipFile(content[i].value).matched}
    IN  IF hits = {} THEN NoMatch ELSE SearchClipFile(content[Leftmost(hits)].value)

\* the part of a match object's string that the pattern matched
ClipFileGroup(m) == clip_ \o m.group1 \o <<"m">> \o m.group2 \o <<"s">> \o mp4

RecordInit ==
    /\ AnalyzerIdle
    /\ AgentIdle
    /\ EnumIdle
    /\ SynthIdle
    /\ ProbeIdle
    /\ video_stem \in Stems
    /\ half_name \in {"first_half", "second_half"}
    /\ analysis \in Texts
    /\ record_file = <<>>
    /\ collected = <<>>
    /\ rpc = "write"

\* with open(output_file, 'w') as f: the five f.write calls
WriteRecord ==
    /\ rpc = "write"
    /\ record_file' = RecordLines(video_stem, half_name, analysis)
    /\ rpc' = "collect"
    /\ UNCHANGED <<video_stem, half_name, analysis, collected>>
    /\ UNCHANGED <<analyzerVars, agentVars, enumVars, synthVars, probeVars>>

\* content = f.read(); if timestamp_match and clip_file_match: results.append(...)
ReadRecord ==
    /\ rpc = "collect"
    /\ LET tm == timestamp_match(record_file)
           cm == clip_file_match(record_file)
       IN  collected' =
              IF tm.matched /\ cm.matched
              THEN <<[file |-> video_stem \o txt,
                      half |-> half_name,
                      clip_start_time |-> int(split(tm.group1, ":")[1]) * 60
                                          + int(split(tm.group1, ":")[2]),
                      timestamp |-> tm.group1,
                      clip_file |-> ClipFileGroup(cm),
                      content |-> record_file]>>
              ELSE <<>>
    /\ rpc' = "done"
    /\ UNCHANGED <<video_stem, half_name, analysis, record_file>>
    /\ UNCHANGED <<analyzerVars, agentVars, enumVars, synthVars, probeVars>>

\* except Exception as e: print(f"Error reading {file_path}: {e}")
ReadFails ==
    /\ rpc = "collect"
    /\ rpc' = "failed"
    /\ UNCHANGED <<video_stem, half_name, analysis, record_file, collected>>
    /\ UNCHANGED <<analyzerVars, agentVars, enumVars, synthVars, probeVars>>

RecordNext == WriteRecord \/ ReadRecord \/ ReadFails

RecordSpec == RecordInit /\ [][RecordNext]_vars

(* ------------------------ context-size probe ---------------------------- *)
\* test_sizes = [1, 5, 10, 25, 50, 100, 150, 200, 250, 300, 337]
test_sizes == <<1, 5, 10, 25, 50, 100, 150, 200, 250, 300, 337>>

\* test_sizes.index(value): the first position holding the value (from 0);
\* the value is in the list
index(value) ==
    (CHOOSE i \in 1..Len(test_sizes) :
        /\ test_sizes[i] = value
        /\ \A j \in 1..(i - 1) : test_sizes[j] # value) - 1

InList(value) == \E i \in 1..Len(test_sizes) : test_sizes[i] = value

\* test_sizes[k] for a k that may be -1: Python counts a negative index from the end
item(k) == IF k >= 0 THEN test_sizes[k + 1] ELSE test_sizes[Len(test_sizes) + k + 1]

ProbeInit ==
    /\ AnalyzerIdle
    /\ AgentIdle
    /\ EnumIdle
    /\ SynthIdle
    /\ RecordIdle
    /\ n_descriptions \in 0..MaxFiles
    /\ tidx = 1
    /\ batch_size = 0
    /\ tested = <<>>
    /\ maximum = {}
    /\ ppc = "loop"

ProbeStep(p) ==
    /\ ppc' = p
    /\ UNCHANGED n_descriptions
    /\ UNCHANGED <<analyzerVars, agentVars, enumVars, synthVars, recordVars>>

\* for batch_size in test_sizes: if batch_size > len(description_files):
\*     batch_size = len(description_files)
NextSize ==
    /\ ppc = "loop"
    /\ tidx <= Len(test_sizes)
    /\ batch_size' = IF test_sizes[tidx] > n_descriptions THEN n_descriptions
                     ELSE test_sizes[tidx]
    /\ ProbeStep("call")
    /\ UNCHANGED <<tidx, tested, maximum>>

\* the list is exhausted
EndOfSizes ==
    /\ ppc = "loop"
    /\ tidx > Len(test_sizes)
    /\ ProbeStep("end")
    /\ UNCHANGED <<tidx, batch_size, tested, maximum>>

\* response = model.generate_content(test_prompt) returns;
\* if batch_size == len(description_files): break; else time.sleep(2)
CallSucceeds ==
    /\ ppc = "call"
    /\ tested' = Append(tested, batch_size)
    /\ IF batch_size = n_descriptions
       THEN ProbeStep("full") /\ UNCHANGED tidx
       ELSE ProbeStep("loop") /\ tidx' = tidx + 1
    /\ UNCHANGED <<batch_size, maximum>>

\* the call raises and the message names context, length or token: the script
\* prints test_sizes[test_sizes.index(batch_size)-1] if batch_size > 1 else 0
\* and breaks; index() raises ValueError for a value that is not in the list
ContextError ==
    /\ ppc = "call"
    /\ tested' = Append(tested, batch_size)
    /\ IF batch_size > 1
       THEN IF InList(batch_size)
            THEN maximum' = {item(index(batch_size) - 1)} /\ ProbeStep("limit")
            ELSE maximum' = maximum /\ ProbeStep("crashed")
       ELSE maximum' = {0} /\ ProbeStep("limit")
    /\ UNCHANGED <<tidx, batch_size>>

\* the call raises with a quota or rate message (sleep 60) or with any other
\* message: continue with the next size
OtherError ==
    /\ ppc = "call"
    /\ tested' = Append(tested, batch_size)
    /\ tidx' = tidx + 1
    /\ ProbeStep("loop")
    /\ UNCHANGED <<batch_size, maximum>>

ProbeNext == NextSize \/ EndOfSizes \/ CallSucceeds \/ ContextError \/ OtherError

ProbeSpec == ProbeInit /\ [][ProbeNext]_vars

(* ============================ properties =============================== *)
Submitted == {futures[i] : i \in 1..Len(futures)}

SubmitLoopDone == mpc \in {"collect", "write", "finished"}

\* C1: every upload obtained by a task is deleted before the task returns, on
\* every exit path (success, FAILED state after polling, exception).
C1_ReleasedOnEveryExit ==
    \A c \in Clips : pc[c] = "returned" => remote[c] # "live"

\* C2: a run that starts with a successful record for every clip makes no
\* external call: nothing is submitted, uploaded, polled, inferred or deleted.
C2_NoCallsWhenAllDone ==
    (run > 1 /\ Alive /\ \A c \in Clips : atStart[c] = "DONE") =>
        /\ futures = <<>>
        /\ \A c \in Clips : pc[c] = "none" /\ ncalls[c] = NoCalls

\* C3: each run submits exactly the clips that had no successful record when
\* it began: successful ones are skipped, absent or failed ones are redone.
C3_SubmitsExactlyNotDone ==
    SubmitLoopDone =>
        \A c \in Clips :
            /\ atStart[c] = "DONE" => c \notin Submitted
            /\ atStart[c] \in {"absent", "FAILED"} => c \in Submitted

\* C4: no output file is ever observable half-written: each is absent or holds
\* the complete record.
C4_NoPartialRecord ==
    \A c \in Clips : file[c] # PARTIAL

\* C5: an interrupted run leaves no half-written record, and the run that
\* follows it ends with a complete record for every clip.
C5_InterruptThenResume ==
    /\ mpc = "interrupted" => \A c \in Clips : file[c] # PARTIAL
    /\ (mpc = "finished" /\ resumed) => \A c \in Clips : IsRecord(file[c])

\* C6: the number of tasks in flight (started, not yet returned) never exceeds
\* max_workers, however many clips were submitted.
C6_InFlightWithinCap ==
    Cardinality(InFlight) <= max_workers

\* C6 witness: every thread is busy while a submitted task still waits.
C6_CapBinds ==
    /\ Cardinality(InFlight) = max_workers
    /\ \E c \in Clips : pc[c] = "queued"

\* C7: a task that is polling stops polling and returns, even when the
\* capability answers PROCESSING on every check.
C7_PollingEnds ==
    \A c \in Clips : (pc[c] = "sleep") ~> (pc[c] = "returned" \/ ~Alive)

\* the analysis text reads as one of the two failure lines of the task
IsFailureText(t) == t[1] \in {"Failed to process", "Error analyzing"}

\* C8: a stored record reads as a failure exactly when the task that produced
\* it failed, so a failed record can always be told from a successful one.
C8_FailedDistinguishable ==
    \A c \in Clips :
        IsRecord(file[c]) => (IsFailureText(file[c].ANALYSIS) <=> origin[c] = "FAILED")

\* C9: a task whose external call failed transiently is attempted again before
\* it is given up: it does not return a failure after a single attempt.
C9_TransientRetried ==
    \A c \in Clips :
        (pc[c] = "returned" /\ raised[c] \in Transient) =>
            \E k \in {"upload", "generate_content", "delete_file"} : ncalls[c][k] > 1

\* C10: a failing task is not retried: it returns its failure line at once, and
\* within a run each clip is uploaded at most once and inferred at most once.
C10_NoRetry ==
    \A c \in Clips :
        /\ ncalls[c].upload <= 1
        /\ ncalls[c].generate_content <= 1
        /\ raised[c] # "none" =>
              /\ pc[c] = "returned"
              /\ result[c] = ErrorText(c, raised[c])
        /\ pc[c] \in {"sleep", "generate", "delete"} => video_file[c] # "FAILED"

\* C10 witness: a task whose call was rejected has returned after one upload.
C10_PermanentFailureReturned ==
    \E c \in Clips :
        /\ raised[c] \in Exceptions \ Transient
        /\ pc[c] = "returned"
        /\ ncalls[c].upload = 1

\* C11: the failure of one clip, in its task or while its result is collected
\* and written, never ends the run early: the run stays able to step until it
\* has finished, and when it has finished every clip that was not skipped was
\* submitted, its task has returned and the collect loop has taken every future.
C11_FailureDoesNotAbort ==
    /\ Alive => ENABLED RunNext
    /\ mpc = "finished" =>
          /\ idx = Len(futures) + 1
          /\ \A c \in Clips : c \in Submitted \/ (SkipExisting(script) /\ Exists(c))
          /\ \A c \in Submitted : pc[c] = "returned"

\* C11 witness: the run has finished; the write of the first future failed
\* and a later clip still got its complete record.
C11_OthersStillProcessed ==
    /\ mpc = "finished"
    /\ Len(futures) >= 2
    /\ file[futures[1]] = PARTIAL
    /\ \E d \in Submitted \ {futures[1]} :
          /\ file[d] = Record(d, result[d])
          /\ origin[d] = "DONE"

\* C13: an output file that holds a complete record is never touched again:
\* no later step of the run and no later run truncates, rewrites or changes it.
C13_RecordWrittenOnce ==
    [][\A c \in Clips : IsRecord(file[c]) => file'[c] = file[c]]_vars

\* C14: when a run has finished, every clip has exactly one complete record in
\* the output directory, stored in the file named after that clip.
C14_OneRecordPerClip ==
    mpc = "finished" =>
        \A c \in Clips : IsRecord(file[c]) /\ file[c].CLIP_FILE = c

\* C15: an upload is named in get_file, generate_content and delete_file only
\* by the task whose own upload_file call returned it, never by another task.
C15_HandleOwnedByWorker ==
    \A h \in Clips : \A w \in touched[h] :
        /\ w = h
        /\ ncalls[w].upload = 1
        /\ remote[h] # "none"

\* C15 witness: two tasks run at once, each on an upload of its own that it has
\* polled; one is about to infer and the other to delete.
C15_TwoWorkersTwoHandles ==
    \E c, d \in Clips :
        /\ c # d
        /\ pc[c] = "generate" /\ pc[d] = "delete"
        /\ remote[c] = "live" /\ remote[d] = "live"
        /\ touched[c] = {c} /\ touched[d] = {d}

\* what the output file of a clip held when the invocation began
AtStartFile(c) ==
    IF atStart[c] = "DONE" THEN Record(c, <<"KICKOUT: YES">>) ELSE ABSENT

\* C16: what the output directory holds when a run has finished does not depend
\* on the order in which the tasks ran or returned: the file of a submitted clip
\* holds the record of that clip's own result (or, when its own write failed,
\* is truncated or as it was), and every other file is as it was at the start.
C16_StoreIndependentOfOrder ==
    mpc = "finished" =>
        \A c \in Clips :
            IF c \in Submitted
            THEN file[c] \in {Record(c, result[c]), PARTIAL, AtStartFile(c)}
            ELSE file[c] = AtStartFile(c)

\* C16 witness: a finished run of two threads over two submitted clips, one
\* task succeeded and one failed, each record holding its own clip's result.
C16_BothWritten ==
    /\ mpc = "finished"
    /\ max_workers = 2
    /\ Submitted = Clips
    /\ \A c \in Clips : file[c] = Record(c, result[c])
    /\ \E c, d \in Clips : raised[c] # "none" /\ remote[d] = "released"

\* descriptions whose task has stored its increment of processed_count / error_count
CountedOk  == {c \in Clips : tpc[c] = "release_ok" \/ ret[c] = "True"}
CountedErr == {c \in Clips : tpc[c] = "release_err" \/ ret[c] = "False"}

\* C12: under every interleaving of the workers each counter equals the number
\* of tasks that have incremented it, so no update is lost and none is undone;
\* every task increments exactly one of the two, once, before it returns, and
\* when the pool has finished the two add up to the number of tasks submitted.
C12_CountersLoseNoUpdate ==
    /\ processed_count = Cardinality(CountedOk)
    /\ error_count = Cardinality(CountedErr)
    /\ CountedOk \cap CountedErr = {}
    /\ \A c \in Clips : tpc[c] = "returned" => c \in CountedOk \cup CountedErr
    /\ apc = "finished" => processed_count + error_count = Len(description_files)

\* C12 witness: one task holds the lock between reading and storing a counter
\* while another task, ready to increment, waits for the lock.
C12_IncrementContended ==
    \E c, d \in Clips :
        /\ c # d
        /\ tpc[c] \in {"store_ok", "store_err"}
        /\ tpc[d] \in {"acquire_ok", "acquire_err"}

\* C17: the workers meet only at the counters, which a task reads and writes
\* while it holds results_lock, and at the output directory, where each task
\* writes the file of its own description: a file being written is as its
\* writer left it, and a file never holds another description's text.
C17_WorkersShareOnlyLockedCounters ==
    /\ \A c \in Clips :
          tpc[c] \in {"load_ok", "store_ok", "release_ok",
                      "load_err", "store_err", "release_err"} => results_lock = c
    /\ \A c \in Clips :
          /\ compressed[c] \in {ABSENT, PARTIAL, Summary(c)}
          /\ tpc[c] = "write" => compressed[c] = PARTIAL
          /\ (tpc[c] \in InOk \/ ret[c] = "True") => compressed[c] = Summary(c)

\* C17 witness: two tasks are writing their output files at the same time.
C17_ConcurrentWrites ==
    \E c, d \in Clips :
        /\ c # d
        /\ tpc[c] = "write" /\ tpc[d] = "write"

\* the entries built so far
Entries == {descriptions[i] : i \in 1..Len(descriptions)}

\* C18: for a file named by the clip_<MM>m<SS>s encoding of minute mm, second
\* ss, the start time decoded from it is mm * 60 + ss, whether it is decoded
\* from the file name, from the TIMESTAMP header or from the MM:SS string, and
\* the MM:SS string of the entry decodes to the same number.
C18_DecodedOffsetExact ==
    \A entry \in Entries : \A p \in Encoded :
        entry.file = FileName(EncodedStem(p)) =>
            /\ OffsetOf(entry) = p[1] * 60 + p[2]
            /\ convert_timestamp_to_seconds(entry.timestamp) = p[1] * 60 + p[2]

\* C18 witness: the function has returned an entry for clip_09m45s.txt.
C18_EncodedNameDecoded ==
    /\ epc = "returned"
    /\ \E entry \in Entries :
          /\ entry.file = FileName(EncodedStem(<<9, 45>>))
          /\ OffsetOf(entry) = 585

\* C19: two files with different names that the file-name pattern accepts
\* never decode to the same start time.
C19_OffsetsUnique ==
    collector \in {"synthesize_kickouts_json", "synthesize_existing_results"} =>
        \A e1, e2 \in Entries :
            e1.file # e2.file => OffsetOf(e1) # OffsetOf(e2)

\* C20: the entries a collecting function returns are in ascending order of
\* start time, whatever accepted names the directory holds.
C20_OrderedByOffset ==
    epc = "returned" =>
        \A i, j \in 1..Len(descriptions) :
            i < j => OffsetOf(descriptions[i]) <= OffsetOf(descriptions[j])

\* the name is clip_<digits>m<digits>s and its extension, nothing else
MatchesEncoding(name) ==
    LET m == MatchAt(name, 1, SubSeq(name, Len(name) - Len(txt) + 1, Len(name)))
    IN  /\ m.matched
        /\ Len(name) = Len(clip_) + Len(m.group1) + 1 + Len(m.group2) + 1 + Len(txt)

\* C21: a file whose name does not match the clip_<MM>m<SS>s encoding yields no
\* entry and is never submitted: every clip selected for submission matches.
C21_NonMatchingSkipped ==
    \A entry \in Entries : MatchesEncoding(entry.file)

\* the files of the directory whose minutes field the filter can read
Filterable ==
    {FileName(stem) : stem \in {st \in listing : MatchAt(FileName(st), 1, mp4).matched}}

\* the files selected for submission
Selected == {entry.file : entry \in Entries}

Done(results) ==
    {results[i] : i \in {j \in 1..Len(results) : results[j].content # ErrorLine}}

\* C23: the material a timeline is produced from holds only the records of
\* clips whose analysis succeeded: no result pasted into the prompt is the
\* record of a failed analysis.
C23_OnlyDoneRecordsUsed ==
    \A i \in 1..Len(prompt) : prompt[i] \in Done(analysis_results)

\* the text carries the fields the analyzer's prompt asks for
HasFields(text) == text[1] \in {"KICKOUT: YES", "KICKOUT: NO"}

\* C24: an answer without the expected fields is never stored as the record of
\* a successful analysis: every record stored for a task that succeeded
\* carries the fields.
C24_UnstructuredNeverDone ==
    \A c \in Clips :
        (IsRecord(file[c]) /\ origin[c] = "DONE") => HasFields(file[c].ANALYSIS)

\* C25: two invocations of a synthesis script on the same results write the
\* same timeline.
C25_SynthesisDeterministic ==
    (spc = "exit" /\ timeline # None /\ previous # None) => timeline = previous

\* the four times of a halftime analysis in which every line names a time
Resolved(text) ==
    /\ text.first_half_start # {}
    /\ text.first_half_end # {}
    /\ text.second_half_start # {}
    /\ text.match_end # {}

TimeOf(pick) == CHOOSE t \in pick : TRUE

\* C26: a written halftime analysis that names all four times has them in the
\* order start1 < end1 < start2 < end2, each half lasting 15 to 45 minutes and
\* the break 3 to 15 minutes.
C26_BoundariesOrderedAndBounded ==
    (synth = "synthesize_patterns" /\ timeline # None
        /\ Resolved(timeline.synthesis_result)) =>
        LET start1 == TimeOf(timeline.synthesis_result.first_half_start)
            end1   == TimeOf(timeline.synthesis_result.first_half_end)
            start2 == TimeOf(timeline.synthesis_result.second_half_start)
            end2   == TimeOf(timeline.synthesis_result.match_end)
        IN  /\ start1 < end1 /\ end1 < start2 /\ start2 < end2
            /\ (end1 - start1) \in (15 * 60)..(45 * 60)
            /\ (end2 - start2) \in (15 * 60)..(45 * 60)
            /\ (start2 - end1) \in (3 * 60)..(15 * 60)

\* C27: for the descriptions at 00:00, 34:58, 35:10 and 69:40 the analysis the
\* script writes names the four times 00:00, 34:58, 35:10 and 69:40 (first
\* half 34:58, break 0:12, second half 34:30), none left out.
C27_ScenarioResolved ==
    (synth = "synthesize_patterns" /\ analysis_results = Match /\ timeline # None) =>
        timeline.synthesis_result =
              [kind |-> "text", first_half_start |-> {0}, first_half_end |-> {2098},
               second_half_start |-> {2110}, match_end |-> {4180}]

\* C28: no two entries of a written kickout timeline are within the dedup
\* window (5 seconds) of each other.
C28_NoTwoEntriesWithinWindow ==
    (synth \in Recurring /\ timeline # None) =>
        \A i, j \in 1..Len(timeline.events) :
            i < j => timeline.events[j].time - timeline.events[i].time > 5

\* C29: no entry of a written kickout timeline has a confidence below the
\* threshold (7).
C29_NoEntryBelowThreshold ==
    (synth \in Recurring /\ timeline # None) =>
        \A i \in 1..Len(timeline.events) : timeline.events[i].confidence >= 7

\* C30: the total a written kickout timeline reports is the number of entries
\* of its events list.
C30_TotalIsNumberOfEntries ==
    (synth \in Recurring /\ timeline # None) =>
        timeline.total_kickouts = Len(timeline.events)

C32_AtMostFirstN ==
    (max_clips # <<>> /\ apc # "find") =>
        /\ Len(description_files) <= max_clips[1]
        /\ \A i \in 1..Len(description_files) : description_files[i] = i

\* C33: a clip's output file changes only in a step of the collect loop, which
\* is at that clip's position of the futures list, after the tasks of all
\* clips submitted before it have returned and been passed by the loop.
C33_WrittenInSubmissionOrder ==
    [][\A c \in Clips :
          file'[c] # file[c] =>
              /\ mpc \in {"collect", "write"}
              /\ pc' = pc
              /\ idx <= Len(futures)
              /\ c = futures[idx]
              /\ \A j \in 1..(idx - 1) : pc[futures[j]] = "returned"]_vars

\* C33 witness: the second submitted task has returned and its record is not
\* written, while the collect loop waits for the first, which is in flight.
C33_FinishedResultWaits ==
    /\ mpc = "collect"
    /\ Len(futures) = 2
    /\ idx = 1
    /\ futures[1] \in InFlight
    /\ pc[futures[2]] = "returned"
    /\ file[futures[2]] = ABSENT

\* C34: the record an analyzer wrote for a clip named clip_<MM>m<SS>s.mp4 is
\* accepted by collect_analysis_results with clip_start_time MM * 60 + SS,
\* timestamp MM:SS, the half of its directory and the clip's file name,
\* whatever lines the analysis text holds.
C34_WrittenRecordReadBack ==
    (rpc = "done" /\ MatchesEncoding(video_stem \o mp4)) =>
        LET m == MatchAt(video_stem \o mp4, 1, mp4) IN
        /\ Len(collected) = 1
        /\ collected[1].clip_start_time = int(m.group1) * 60 + int(m.group2)
        /\ collected[1].timestamp = m.group1 \o <<":">> \o m.group2
        /\ collected[1].half = half_name
        /\ collected[1].clip_file = video_stem \o mp4

\* C34 witness: the record of clip_09m45s.mp4 was read back, its analysis
\* text holding a line that reads TIMESTAMP: 99:59.
C34_ReadBackWithHeaderLikeText ==
    /\ rpc = "done"
    /\ video_stem = EncodedStem(<<9, 45>>)
    /\ \E i \in 1..Len(analysis) : analysis[i].label = "TIMESTAMP: "
    /\ Len(collected) = 1

\* output_file = output_dir / f"{clip_name}_compressed.txt"
CompressedStem(stem) == stem \o <<"_", "c", "o", "m", "p", "r", "e", "s", "s", "e", "d">>

\* the string is exactly two integers with a colon between them
TwoIntegers(timestamp) ==
    /\ Len(split(timestamp, ":")) = 2
    /\ IsDigits(split(timestamp, ":")[1])
    /\ IsDigits(split(timestamp, ":")[2])

\* C35: in the list synthesize_patterns.py sorts, the timestamp of a summary
\* named clip_<MM>m<SS>s_compressed is not two integers; an entry whose
\* timestamp is not two integers has sort key 0 and is preceded only by
\* entries of key 0; an entry whose timestamp is two integers has key
\* minutes * 60 + seconds.
C35_UndecodableOrderedAsZero ==
    (collector = "synthesize_patterns" /\ epc = "returned") =>
        \A i \in 1..Len(descriptions) :
            LET e == descriptions[i]
                parts == split(e.timestamp, ":")
            IN  /\ e.file = FileName(CompressedStem(EncodedStem(<<0, 15>>)))
                      => ~TwoIntegers(e.timestamp)
                /\ ~TwoIntegers(e.timestamp) =>
                      /\ OffsetOf(e) = 0
                      /\ \A j \in 1..(i - 1) : OffsetOf(descriptions[j]) = 0
                /\ TwoIntegers(e.timestamp) =>
                      OffsetOf(e) = int(parts[1]) * 60 + int(parts[2])

\* C35 witness: the sorted list holds the entry of clip_00m15s_compressed.txt
\* ahead of the entry of clip_00m15s.txt, which precedes it in the listing.
C35_CompressedSortedFirst ==
    /\ collector = "synthesize_patterns"
    /\ epc = "returned"
    /\ \E i, j \in 1..Len(descriptions) :
          /\ i < j
          /\ descriptions[i].file = FileName(CompressedStem(EncodedStem(<<0, 15>>)))
          /\ descriptions[j].file = FileName(EncodedStem(<<0, 15>>))

\* C36: when the answer of the synthesis call holds no JSON object, or one that
\* does not parse, the synthesis function returns None and main() returns
\* without saving: this invocation writes none of the output files.
C36_UnparsedAnswerWritesNothing ==
    (synth \in Recurring /\ synth_response.kind \in {"text", "braces"}) =>
        /\ spc \in {"extract", "exit"}
        /\ spc = "exit" => kickout_data = None
        /\ timeline = None

\* C36 witness: a second invocation, over the output files of the first, got
\* an answer that does not parse and has returned.
C36_SecondRunUnparsed ==
    /\ synth = "2-synthesize_kickouts"
    /\ previous # None
    /\ synth_response.kind = "braces"
    /\ spc = "exit"

\* the largest batch size a call was made for before the last one, 0 if none
LargestTestedBefore ==
    LET before == {tested[i] : i \in 1..(Len(tested) - 1)}
    IN  IF before = {} THEN 0 ELSE CHOOSE m \in before : \A k \in before : k <= m

\* C37: when a call of the probe fails with a context error, the script
\* reports the largest batch size tested before that call (0 when it was the
\* first) and stops, whatever the number of description files.
C37_ReportsLargestTestedBefore ==
    /\ ppc # "crashed"
    /\ ppc = "limit" => maximum = {LargestTestedBefore}
====
